---- MODULE Spec2Model ----
(***************************************************************************)
(* BinSpec: a bit-addressable binary decoding engine.                      *)
(*                                                                         *)
(*   - the bit converter   (binspec/utilities/utilities.py)                *)
(*   - the descriptors     (binspec/types/spec_type.py)                    *)
(*   - the session/cursor  (binspec/spec.py, class Specification)          *)
(*                                                                         *)
(* Six specifications share the module: Spec drives one Specification      *)
(* session over a byte stream, SpecPermissive drives it with permissive    *)
(* reads only, SpecText drives it with String and Packed fields,           *)
(* SpecShared drives two sessions with the same descriptor objects,        *)
(* SpecConv applies the pure converter to every bit sequence up to MaxBits *)
(* bits, and SpecType constructs a descriptor and applies it to every bit  *)
(* sequence up to MaxTypeBits bits.                                        *)
(***************************************************************************)
EXTENDS Integers, Sequences, FiniteSets, TLC

VARIABLES
    \* ---- Specification object (binspec/spec.py) ----
    stream,         \* the bytes of the underlying BytesIO
    pos,            \* the BytesIO read position (stream.tell())
    current_byte,   \* self.__current_byte: -1, None, or a byte value
    bit_offset,     \* self.__bit_offset
    byte_offset,    \* self.__byte_offset
    history,        \* self.__history: None or a list
    track_history,  \* the track_history argument of the constructor
    middleware,     \* self.middleware is not None
    \* ---- observation of the run (not program state) ----
    cur_index,      \* 1-based index in stream of the byte held in current_byte
    last,           \* the last call: its arguments, outcome and the state before
    delivered,      \* concatenation of the bit sequences handed to parse
    delivered_idx,  \* absolute stream bit index of every bit handed to parse
    clean,          \* every call so far was an expect that returned a value
    calls,          \* number of calls made
    eof_read,       \* 1-based indices of the stream bytes read by assert_eof
    \* ---- the converter under SpecConv ----
    conv_bits, conv_big_endian, conv_result,
    \* ---- a descriptor built and applied on its own, under SpecType ----
    ty_call,        \* the constructor call: class and arguments
    ty_bits,        \* the bits handed to parse
    ty_obj,         \* the outcome of the constructor call
    ty_out,         \* the outcome of get_bit_length and parse on the object
    \* ---- two sessions sharing descriptor objects, under SpecShared ----
    objects,        \* the descriptor objects, by identity: their attributes
    parked,         \* the Specification object that is not being called
    active,         \* which of the two sessions the session variables hold
    shared_call,    \* the last call: the session and the descriptor object
    shared_calls    \* number of calls made on the two sessions together

vars == <<stream, pos, current_byte, bit_offset, byte_offset, history, track_history,
          middleware, cur_index, last, delivered, delivered_idx, clean, calls,
          conv_bits, conv_big_endian, conv_result,
          eof_read, ty_call, ty_bits, ty_obj, ty_out,
          objects, parked, active, shared_call, shared_calls>>

session_vars == <<stream, pos, current_byte, bit_offset, byte_offset, history,
                  track_history, middleware, cur_index, last, delivered,
                  delivered_idx, clean, calls, eof_read>>

conv_vars == <<conv_bits, conv_big_endian, conv_result>>

type_vars == <<ty_call, ty_bits, ty_obj, ty_out>>

shared_vars == <<objects, parked, active, shared_call, shared_calls>>

\* ------------------------------------------------------------------ bounds
MaxStream == 2
MaxCalls == 3
MaxBits == 13
MaxTypeBits == 8
MaxSharedCalls == 3

\* The byte values streams are built from (the bytes of the test scenarios).
ByteVals == {137, 240}

\* The byte values of the streams read with String and Packed: "A" and a byte
\* outside ASCII.
TextByteVals == {65, 137}

\* ----------------------------------------------------------------- helpers
Reverse(s) == [i \in 1..Len(s) |-> s[Len(s) + 1 - i]]

RECURSIVE Pow2(_)
Pow2(n) == IF n <= 0 THEN 1 ELSE 2 * Pow2(n - 1)

BitSeqs(n) == UNION {[1..k -> {0, 1}] : k \in 0..n}

\* The unsigned integer whose Len(bits)-bit most-significant-bit-first binary
\* representation is bits (the reference encoder's inverse).
RECURSIVE RefValue(_)
RefValue(bits) ==
    IF Len(bits) = 0 THEN 0
    ELSE 2 * RefValue(SubSeq(bits, 1, Len(bits) - 1)) + bits[Len(bits)]

\* The reference encoder: n as L bits, most significant first.
RefBits(n, L) == [i \in 1..L |-> (n \div Pow2(L - i)) % 2]

\* ----------------------------------------------------- utilities.py
\* The inner loop of bits_to_bytes (for j in range(8)); i is the 0-based offset
\* of the group, byte the accumulator.
RECURSIVE group_byte(_, _, _, _)
group_byte(bits, i, j, byte) ==
    LET shifted == byte * 2
    IN  IF i + j >= Len(bits) THEN shifted
        ELSE LET b1 == IF bits[i + j + 1] = 0 THEN shifted ELSE shifted + 1
             IN  IF i + j + 1 >= Len(bits) \/ j = 7 THEN b1
                 ELSE group_byte(bits, i, j + 1, b1)

\* The loop "for i in range(excess_count)" on one adjacent pair.
RECURSIVE shift_pair(_, _, _)
shift_pair(byte_right, byte_left, n) ==
    IF n = 0 THEN <<byte_right, byte_left>>
    ELSE LET r1 == byte_right \div 2
             r2 == IF byte_left % 2 # 0 /\ (r1 \div 128) % 2 = 0 THEN r1 + 128 ELSE r1
         IN  shift_pair(r2, byte_left \div 2, n - 1)

\* bits_to_bytes: [raised |-> "" or the exception, val |-> the bytes].
bits_to_bytes(bits, big_endian) ==
    LET bs == IF big_endian THEN bits ELSE Reverse(bits)
        n == Len(bs)
        byte_count == (n + 7) \div 8
        b == [k \in 1..byte_count |-> group_byte(bs, 8 * (k - 1), 0, 0)]
        excess_count == n % 8
    IN  IF byte_count > 1 /\ excess_count # 0
        THEN LET top == b[byte_count] * Pow2(excess_count)
             IN  IF top > 255
                 THEN [raised |-> "ValueError", val |-> <<>>]
                 ELSE LET l == Reverse([b EXCEPT ![byte_count] = top])
                          shifted_b ==
                              [i \in 1..byte_count |->
                                  IF i < byte_count
                                  THEN shift_pair(l[i], l[i + 1], excess_count)[1]
                                  ELSE shift_pair(l[i - 1], l[i], excess_count)[2]]
                      IN  [raised |-> "", val |-> Reverse(shifted_b)]
        ELSE [raised |-> "", val |-> b]

\* int.from_bytes(b, byteorder="big")
RECURSIVE from_bytes(_)
from_bytes(b) ==
    IF Len(b) = 0 THEN 0
    ELSE 256 * from_bytes(SubSeq(b, 1, Len(b) - 1)) + b[Len(b)]

\* bits_to_int: [raised |-> "" or the exception, val |-> the integer].
bits_to_int(bits, big_endian) ==
    LET b == bits_to_bytes(bits, big_endian)
    IN  IF b.raised # "" THEN [raised |-> b.raised, val |-> 0]
        ELSE [raised |-> "", val |-> from_bytes(b.val)]

\* ----------------------------------------------------- types/spec_type.py
\* Int.__init__ (Int itself names the integers here): the bit length and the
\* endianness are all it keeps.
SpecInt(bytes, bits, big_endian) ==
    [type |-> "Int", bit_length |-> bits + bytes * 8, big_endian |-> big_endian]

\* Bits.__init__
Bits(count) == [type |-> "Bits", bit_length |-> count]

\* Bool.__init__
Bool(single_bit) == [type |-> "Bool", single_bit |-> single_bit]

\* A caller-defined SpecType whose get_bit_length returns -1 and which does not
\* override parse (test_binspec.py, InvalidSpecType).
InvalidSpecType == [type |-> "InvalidSpecType"]

\* String.__init__
String(encoding, length, big_endian) ==
    [type |-> "String", encoding |-> encoding, length |-> length,
     big_endian |-> big_endian]

\* sum([t[1] for t in self.spec_types])
RECURSIVE sum_lengths(_)
sum_lengths(spec_types) ==
    IF Len(spec_types) = 0 THEN 0
    ELSE sum_lengths(SubSeq(spec_types, 1, Len(spec_types) - 1))
         + spec_types[Len(spec_types)][2]

\* get_bit_length of each descriptor class.
get_bit_length(spec_type) ==
    CASE spec_type.type = "Int" -> spec_type.bit_length
      [] spec_type.type = "Bits" -> spec_type.bit_length
      [] spec_type.type = "Bool" -> IF spec_type.single_bit THEN 1 ELSE 8
      [] spec_type.type = "Array" -> spec_type.item_length * spec_type.length
      [] spec_type.type = "String" -> 8 * spec_type.length
      [] spec_type.type = "Packed" -> sum_lengths(spec_type.spec_types)
      [] spec_type.type = "InvalidSpecType" -> -1

\* The names argument of Packed: None, or a list of names.
NoNames == [tag |-> "None", items |-> <<>>]

Names(items) == [tag |-> "list", items |-> items]

\* names_mismatch with the length test left out.
names_mismatch_unchecked(spec_types, names) == FALSE

\* names is not None and len(spec_types) != len(names)
names_mismatch(spec_types, names) ==
    names.tag # "None" /\ Len(spec_types) # Len(names.items)

\* Packed.__init__: [raised |-> "" or the exception, obj |-> the descriptor].
\* Each member is kept with the bit length it reports at construction.
Packed(spec_types, names) ==
    IF names_mismatch(spec_types, names)
    THEN [raised |-> "SpecTypeError", obj |-> [type |-> "none"]]
    ELSE [raised |-> "",
          obj |-> [type |-> "Packed",
                   spec_types |-> [i \in 1..Len(spec_types) |->
                                      <<spec_types[i], get_bit_length(spec_types[i])>>],
                   names |-> names]]

\* Packed.from_dict(d), and from_kwargs(**kwargs) which calls it: d is a dict,
\* here the sequence of its (name, SpecType) items in insertion order.
from_dict(d) ==
    Packed([i \in 1..Len(d) |-> d[i][2]], Names([i \in 1..Len(d) |-> d[i][1]]))

\* Array.__init__: the element's bit length is read once, at construction.
Array(spec_type, length) ==
    [type |-> "Array", spec_type |-> spec_type, length |-> length,
     item_length |-> get_bit_length(spec_type)]

\* Python's bits[a:b]: 0-based, a negative index counts from the end, both
\* ends clamped to the sequence.
Slice(bits, a, b) ==
    LET n == Len(bits)
        norm(x) == IF x < 0 THEN (IF x + n < 0 THEN 0 ELSE x + n)
                   ELSE (IF x > n THEN n ELSE x)
        lo == norm(a)
        hi == norm(b)
    IN  IF lo >= hi THEN <<>> ELSE SubSeq(bits, lo + 1, hi)

\* array_slices with each chunk one bit short.
array_slices_short(spec_type, bits) ==
    [i \in 1..spec_type.length |->
        [spec_type |-> spec_type.spec_type,
         bits |-> Slice(bits, (i - 1) * spec_type.item_length,
                        i * spec_type.item_length - 1)]]

\* Array.parse: the element descriptor and the slice each iteration hands it.
array_slices(spec_type, bits) ==
    [i \in 1..spec_type.length |->
        [spec_type |-> spec_type.spec_type,
         bits |-> Slice(bits, (i - 1) * spec_type.item_length,
                        i * spec_type.item_length)]]

\* packed_slices with the running offset never advanced.
packed_slices_restart(spec_type, bits) ==
    [k \in 1..Len(spec_type.spec_types) |->
        [spec_type |-> spec_type.spec_types[k][1],
         bits |-> Slice(bits, 0, spec_type.spec_types[k][2])]]

\* packed_slices with every slice one bit too long.
packed_slices_long(spec_type, bits) ==
    [k \in 1..Len(spec_type.spec_types) |->
        LET i == sum_lengths(SubSeq(spec_type.spec_types, 1, k - 1))
        IN  [spec_type |-> spec_type.spec_types[k][1],
             bits |-> Slice(bits, i, i + spec_type.spec_types[k][2] + 1)]]

\* Packed.parse: the member and the slice each iteration hands it; i is the
\* running offset (i += bit_length).
packed_slices(spec_type, bits) ==
    [k \in 1..Len(spec_type.spec_types) |->
        LET i == sum_lengths(SubSeq(spec_type.spec_types, 1, k - 1))
        IN  [spec_type |-> spec_type.spec_types[k][1],
             bits |-> Slice(bits, i, i + spec_type.spec_types[k][2])]]

\* dict(zip(names, values)), as the sequence of its (key, value) items: a key
\* stands where it was first inserted and holds the value inserted last.
dict_zip(names, values) ==
    LET n == IF Len(names) < Len(values) THEN Len(names) ELSE Len(values)
        firsts == {i \in 1..n : \A j \in 1..(i - 1) : names[j] # names[i]}
        rank(i) == Cardinality({j \in firsts : j <= i})
    IN  [r \in 1..Cardinality(firsts) |->
            LET i == CHOOSE x \in firsts : rank(x) = r
                l == CHOOSE x \in 1..n :
                        names[x] = names[i] /\ \A y \in (x + 1)..n : names[y] # names[i]
            IN  <<names[i], values[l]>>]

\* bytes.decode(encoding) for the "ascii" codec: the code points, or
\* UnicodeDecodeError when a byte is not in range(128).
decode(bytes, encoding) ==
    CASE encoding = "ascii" ->
            IF \E i \in 1..Len(bytes) : bytes[i] > 127
            THEN [raised |-> "UnicodeDecodeError", val |-> <<>>]
            ELSE [raised |-> "", val |-> bytes]

\* bool_parse testing only the last bit.
bool_parse_low_bit(single_bit, bits) ==
    IF Len(bits) = 0 THEN [raised |-> "IndexError", val |-> FALSE]
    ELSE [raised |-> "", val |-> bits[Len(bits)] # 0]

\* Bool.parse
bool_parse(single_bit, bits) ==
    IF single_bit
    THEN IF Len(bits) = 0 THEN [raised |-> "IndexError", val |-> FALSE]
         ELSE [raised |-> "", val |-> bits[1] # 0]
    ELSE [raised |-> "", val |-> \E i \in 1..Len(bits) : bits[i] # 0]

\* The values of a list of nested parse results, or the first exception.
collect(values) ==
    LET failed == {i \in 1..Len(values) : values[i].raised # ""}
    IN  IF failed # {}
        THEN [raised |-> values[CHOOSE i \in failed : \A j \in failed : i <= j].raised,
              val |-> <<>>]
        ELSE [raised |-> "", val |-> [i \in 1..Len(values) |-> values[i].val]]

\* parse of each descriptor class: [raised |-> "" or the exception, val |-> value].
RECURSIVE parse(_, _)
parse(spec_type, bits) ==
    CASE spec_type.type = "Int" -> bits_to_int(bits, spec_type.big_endian)
      [] spec_type.type = "Bits" -> [raised |-> "", val |-> bits]
      [] spec_type.type = "Bool" -> bool_parse(spec_type.single_bit, bits)
      [] spec_type.type = "String" ->
            LET b == bits_to_bytes(bits, spec_type.big_endian)
            IN  IF b.raised # "" THEN b ELSE decode(b.val, spec_type.encoding)
      [] spec_type.type = "Array" ->
            LET slices == array_slices(spec_type, bits)
            IN  collect([i \in 1..Len(slices) |->
                            parse(slices[i].spec_type, slices[i].bits)])
      [] spec_type.type = "Packed" ->
            LET slices == packed_slices(spec_type, bits)
                values == collect([i \in 1..Len(slices) |->
                                      parse(slices[i].spec_type, slices[i].bits)])
            IN  IF values.raised # "" \/ spec_type.names.tag = "None" THEN values
                ELSE [raised |-> "", val |-> dict_zip(spec_type.names.items, values.val)]
      [] spec_type.type = "InvalidSpecType" ->
            [raised |-> "NotImplementedError", val |-> <<>>]

\* Every parse call a parse(spec_type, bits) call makes, itself included: the
\* descriptor and the bits it receives.
RECURSIVE parse_calls(_, _)
parse_calls(spec_type, bits) ==
    LET slices == CASE spec_type.type = "Array" -> array_slices(spec_type, bits)
                    [] spec_type.type = "Packed" -> packed_slices(spec_type, bits)
                    [] OTHER -> <<>>
    IN  {[spec_type |-> spec_type, bits |-> bits]}
        \cup UNION {parse_calls(slices[i].spec_type, slices[i].bits) : i \in 1..Len(slices)}

\* ------------------------------------------------------------- spec.py
\* Python's None as a value of self.__current_byte (a byte is 0..255, the
\* not-yet-loaded sentinel is -1).
None == -2

\* The descriptors the session is driven with.
Descriptors ==
    {SpecInt(0, 4, TRUE), SpecInt(0, 4, FALSE), SpecInt(1, 0, TRUE), SpecInt(1, 1, TRUE),
     Bits(1), Array(Bool(TRUE), 0), InvalidSpecType}

Labels == {"hdr"}

\* The packed field of the test suite: Int(bits=2), Int(bits=4) and two flags.
PackedMembers == <<SpecInt(0, 2, TRUE), SpecInt(0, 4, TRUE), Array(Bool(TRUE), 2)>>

\* The descriptors of the text sessions.
TextDescriptors ==
    {String("ascii", 1, TRUE), SpecInt(0, 4, TRUE),
     Packed(PackedMembers, Names(<<"a", "b", "c">>)).obj}

\* The constructor calls made under SpecType.
TypeCalls ==
    {[class |-> "Bool", single_bit |-> b] : b \in BOOLEAN}
    \cup {[class |-> "Array", spec_type |-> d, length |-> k] :
             d \in {Bool(TRUE), SpecInt(0, 2, TRUE), SpecInt(0, 3, FALSE)},
             k \in {0, 2, 8}}
    \cup {[class |-> "Packed", spec_types |-> PackedMembers, names |-> n] :
             n \in {NoNames, Names(<<"a", "b", "c">>), Names(<<"a", "b", "a">>),
                    Names(<<"a", "b">>), Names(<<>>)}}
    \cup {[class |-> "Packed", spec_types |-> <<>>, names |-> n] :
             n \in {NoNames, Names(<<>>), Names(<<"a">>)}}
    \cup {[class |-> "from_dict",
           d |-> [i \in 1..3 |-> <<(<<"a", "b", "c">>)[i], PackedMembers[i]>>]]}

\* The cursor part of the Specification object, as __take_bits reads and writes it.
Cursor ==
    [current_byte |-> current_byte, bit_offset |-> bit_offset, pos |-> pos,
     cur_index |-> cur_index]

\* next_byte(): self.stream.read(1)[0], or at the end of the stream None
\* (none_at_eof) or SpecEofError.
next_byte(c, none_at_eof) ==
    IF c.pos < Len(stream)
    THEN [raised |-> FALSE,
          c |-> [c EXCEPT !.current_byte = stream[c.pos + 1], !.pos = c.pos + 1,
                          !.cur_index = c.pos + 1]]
    ELSE IF none_at_eof
         THEN [raised |-> FALSE, c |-> [c EXCEPT !.current_byte = None]]
         ELSE [raised |-> TRUE, c |-> c]

\* bit_at reading the byte from its least significant end.
bit_at_lsb_first(byte, offset) == (byte \div Pow2(offset)) % 2

\* bit = (self.__current_byte << self.__bit_offset) & 128; bit >> 7
bit_at(byte, offset) == ((byte * Pow2(offset)) \div 128) % 2

\* The while loop of __take_bits. idx collects, for each bit taken, its absolute
\* 1-based position in the stream.
RECURSIVE take_loop(_, _, _, _, _)
take_loop(c, count, none_at_eof, bits, idx) ==
    IF ~(count > 0) THEN [out |-> "bits", c |-> c, bits |-> bits, idx |-> idx]
    ELSE LET r == IF c.bit_offset = 8
                  THEN next_byte([c EXCEPT !.bit_offset = 0], none_at_eof)
                  ELSE [raised |-> FALSE, c |-> c]
         IN  IF r.raised
             THEN [out |-> "SpecEofError", c |-> r.c, bits |-> <<>>, idx |-> <<>>]
             ELSE IF c.bit_offset = 8 /\ r.c.current_byte = None
             THEN [out |-> "None", c |-> r.c, bits |-> <<>>, idx |-> <<>>]
             ELSE IF r.c.current_byte = None
             THEN \* None << int
                  [out |-> "TypeError", c |-> r.c, bits |-> <<>>, idx |-> <<>>]
             ELSE take_loop([r.c EXCEPT !.bit_offset = r.c.bit_offset + 1],
                            count - 1, none_at_eof,
                            Append(bits, bit_at(r.c.current_byte, r.c.bit_offset)),
                            Append(idx, 8 * (r.c.cur_index - 1) + r.c.bit_offset + 1))

\* __take_bits(count, none_at_eof)
take_bits(c, count, none_at_eof) ==
    IF c.current_byte = -1
    THEN LET r == next_byte(c, none_at_eof)
         IN  IF r.raised
             THEN [out |-> "SpecEofError", c |-> r.c, bits |-> <<>>, idx |-> <<>>]
             ELSE IF r.c.current_byte = None
             THEN [out |-> "None", c |-> r.c, bits |-> <<>>, idx |-> <<>>]
             ELSE take_loop(r.c, count, none_at_eof, <<>>, <<>>)
    ELSE take_loop(c, count, none_at_eof, <<>>, <<>>)

\* negative_length with the check left out.
negative_length_unchecked(bit_length) == FALSE

\* if bit_length < 0: raise SpecTypeError
negative_length(bit_length) == bit_length < 0

\* is_history_enabled()
is_history_enabled == history.tag # "None"

\* get_history()
get_history == history

\* The state a call starts from, kept with the call's record.
Snapshot ==
    [current_byte |-> current_byte, bit_offset |-> bit_offset, pos |-> pos,
     cur_index |-> cur_index, byte_offset |-> byte_offset, history |-> history]

\* The record of an expect call: taken says that __take_bits returned bits (so
\* parse was called on them), invoked counts the calls of the observer.
ExpectRecord(spec_type, none_at_eof, label, outcome, value, bits, taken, invoked) ==
    [op |-> "expect", spec_type |-> spec_type, none_at_eof |-> none_at_eof,
     label |-> label, outcome |-> outcome, value |-> value, bits |-> bits,
     taken |-> taken, invoked |-> invoked,
     named |-> byte_offset, pre |-> Snapshot]

\* history_after appending as soon as bits were taken, parsed or not.
history_after_eager(t, p, spec_type, label) ==
    IF t.out = "bits" /\ is_history_enabled
    THEN [history EXCEPT !.items = Append(@, <<spec_type, p.val, label>>)]
    ELSE history

\* expect, after parse returned: self.__history.append((spec_type, value, label))
\* when history is enabled. Nothing is appended on the paths that left before.
history_after(t, p, spec_type, label) ==
    IF t.out = "bits" /\ p.raised = "" /\ is_history_enabled
    THEN [history EXCEPT !.items = Append(@, <<spec_type, p.val, label>>)]
    ELSE history

\* expect, after the history step: "if self.middleware is not None:
\* middleware(spec_type, value)". The bare name middleware is not bound in the
\* function or the module, so evaluating it raises NameError before any call.
middleware_call(configured) ==
    IF configured THEN [raised |-> "NameError", invoked |-> 0]
    ELSE [raised |-> "", invoked |-> 0]

\* Specification.expect(spec_type, none_at_eof=..., label=...)
expect(spec_type, none_at_eof, label) ==
    /\ calls < MaxCalls
    /\ calls' = calls + 1
    /\ UNCHANGED <<stream, byte_offset, middleware, track_history, eof_read,
                   conv_vars, type_vars>>
    /\ LET bit_length == get_bit_length(spec_type)
       IN  IF negative_length(bit_length)
           THEN /\ UNCHANGED <<pos, current_byte, bit_offset, cur_index, history,
                               delivered, delivered_idx>>
                /\ last' = ExpectRecord(spec_type, none_at_eof, label,
                                        "SpecTypeError", <<>>, <<>>, FALSE, 0)
                /\ clean' = FALSE
           ELSE \E t \in {take_bits(Cursor, bit_length, none_at_eof)} :
                \E p \in {IF t.out = "bits" THEN parse(spec_type, t.bits)
                          ELSE [raised |-> "", val |-> <<>>]} :
                \E m \in {IF t.out = "bits" /\ p.raised = ""
                          THEN middleware_call(middleware)
                          ELSE [raised |-> "", invoked |-> 0]} :
                \E outcome \in {IF t.out # "bits" THEN t.out
                                ELSE IF p.raised # "" THEN p.raised
                                ELSE IF m.raised # "" THEN m.raised
                                ELSE "value"} :
                    /\ current_byte' = t.c.current_byte
                    /\ bit_offset' = t.c.bit_offset
                    /\ pos' = t.c.pos
                    /\ cur_index' = t.c.cur_index
                    /\ delivered' = IF t.out = "bits" THEN delivered \o t.bits
                                    ELSE delivered
                    /\ delivered_idx' = IF t.out = "bits" THEN delivered_idx \o t.idx
                                        ELSE delivered_idx
                    /\ history' = history_after(t, p, spec_type, label)
                    /\ last' = ExpectRecord(spec_type, none_at_eof, label, outcome,
                                            IF t.out = "bits" /\ p.raised = ""
                                            THEN p.val ELSE <<>>,
                                            t.bits, t.out = "bits", m.invoked)
                    /\ clean' = (clean /\ outcome = "value")

\* read leaving the stream position where it was.
read_peek(p, size) ==
    [data |-> Slice(stream, p, p + size), pos |-> p]

\* self.stream.read(size) at stream position p: the bytes read and the position
\* after them.
read(p, size) ==
    LET data == Slice(stream, p, p + size)
    IN  [data |-> data, pos |-> p + Len(data)]

\* more_bytes that never reports a byte.
more_bytes_ignored(data) == FALSE

\* assert_eof: len(self.stream.read(1)) > 0
more_bytes(data) == Len(data) > 0

\* Specification.assert_eof()
assert_eof ==
    /\ calls < MaxCalls
    /\ calls' = calls + 1
    /\ UNCHANGED <<stream, byte_offset, middleware, track_history, conv_vars,
                   type_vars, shared_vars, current_byte, bit_offset, cur_index,
                   history, delivered, delivered_idx>>
    /\ clean' = FALSE
    /\ \E r \in {read(pos, 1)} :
          /\ pos' = r.pos
          /\ eof_read' = eof_read \cup (pos + 1)..r.pos
          /\ last' = [op |-> "assert_eof",
                      outcome |-> IF more_bytes(r.data) THEN "SpecEofError"
                                  ELSE "returned",
                      named |-> byte_offset, pre |-> Snapshot]

\* The converter and the stand-alone descriptor, when they are not exercised.
ConvIdle ==
    conv_bits = <<>> /\ conv_big_endian = TRUE /\ conv_result = [done |-> FALSE]

TypeIdle ==
    /\ ty_call = [class |-> "none"] /\ ty_bits = <<>>
    /\ ty_obj = [done |-> FALSE] /\ ty_out = [done |-> FALSE]

\* Specification.__init__ over a stream of at most MaxStream bytes drawn from
\* byte_vals, with the given track_history and middleware arguments.
InitSession(byte_vals, track_args, middleware_args) ==
    /\ stream \in UNION {[1..n -> byte_vals] : n \in 0..MaxStream}
    /\ pos = 0
    /\ track_history \in track_args
    /\ history = IF track_history THEN [tag |-> "list", items |-> <<>>]
                 ELSE [tag |-> "None", items |-> <<>>]
    /\ middleware \in middleware_args
    /\ bit_offset = 0
    /\ byte_offset = 0
    /\ current_byte = -1
    /\ cur_index = 0
    /\ last = [op |-> "none"]
    /\ delivered = <<>>
    /\ delivered_idx = <<>>
    /\ clean = TRUE
    /\ calls = 0
    /\ eof_read = {}

\* No second session and no descriptor objects.
SharedIdle ==
    /\ objects = <<>> /\ parked = [op |-> "none"] /\ active = 0
    /\ shared_call = [op |-> "none"] /\ shared_calls = 0

Init == InitSession(ByteVals, BOOLEAN, BOOLEAN) /\ ConvIdle /\ TypeIdle /\ SharedIdle

Next ==
    \/ /\ \E spec_type \in Descriptors, none_at_eof \in BOOLEAN, label \in Labels :
             expect(spec_type, none_at_eof, label)
       /\ UNCHANGED shared_vars
    \/ assert_eof

Spec == Init /\ [][Next]_vars

\* ------------------------------------------------------- SpecPermissive
\* A session driven only by expect(..., none_at_eof=True) calls of positive
\* bit length.
PermissiveNext ==
    /\ \E spec_type \in {d \in Descriptors : get_bit_length(d) > 0}, label \in Labels :
          expect(spec_type, TRUE, label)
    /\ UNCHANGED shared_vars

SpecPermissive == Init /\ [][PermissiveNext]_vars

\* -------------------------------------------------------------- SpecText
\* A session reading text and packed fields.
TextInit ==
    InitSession(TextByteVals, BOOLEAN, BOOLEAN) /\ ConvIdle /\ TypeIdle /\ SharedIdle

TextNext ==
    /\ \E spec_type \in TextDescriptors, none_at_eof \in BOOLEAN, label \in Labels :
          expect(spec_type, none_at_eof, label)
    /\ UNCHANGED shared_vars

SpecText == TextInit /\ [][TextNext]_vars

\* ------------------------------------------------------------ SpecShared
\* Two Specification objects over their own streams are called in any order
\* with the same descriptor objects.
SharedObjects == <<SpecInt(0, 4, TRUE), Packed(PackedMembers, NoNames).obj>>

\* The session variables as one Specification object.
SessionObject ==
    [stream |-> stream, pos |-> pos, current_byte |-> current_byte,
     bit_offset |-> bit_offset, byte_offset |-> byte_offset, history |-> history,
     track_history |-> track_history, middleware |-> middleware,
     cur_index |-> cur_index, last |-> last, delivered |-> delivered,
     delivered_idx |-> delivered_idx, clean |-> clean, calls |-> calls,
     eof_read |-> eof_read]

\* A Specification object just constructed over the stream.
NewSession(bytes) ==
    [stream |-> bytes, pos |-> 0, current_byte |-> -1, bit_offset |-> 0,
     byte_offset |-> 0, history |-> [tag |-> "list", items |-> <<>>],
     track_history |-> TRUE, middleware |-> FALSE, cur_index |-> 0,
     last |-> [op |-> "none"], delivered |-> <<>>, delivered_idx |-> <<>>,
     clean |-> TRUE, calls |-> 0, eof_read |-> {}]

\* after_calls with an Int that widens itself at every use.
after_calls_widening(spec_type) ==
    IF spec_type.type = "Int" THEN [spec_type EXCEPT !.bit_length = @ + 1]
    ELSE spec_type

\* The attributes of a descriptor object after get_bit_length() and parse(bits)
\* ran on it: no method of the descriptor classes assigns to self.
after_calls(spec_type) == spec_type

SharedInit ==
    /\ InitSession(TextByteVals, {TRUE}, {FALSE})
    /\ parked \in {NewSession(b) : b \in UNION {[1..n -> TextByteVals] : n \in 0..MaxStream}}
    /\ active = 1
    /\ objects = SharedObjects
    /\ shared_call = [op |-> "none"]
    /\ shared_calls = 0
    /\ ConvIdle /\ TypeIdle

\* expect called on the active session with the descriptor object id.
shared_expect(id, none_at_eof, label) ==
    /\ shared_calls < MaxSharedCalls
    /\ shared_calls' = shared_calls + 1
    /\ expect(objects[id], none_at_eof, label)
    /\ objects' = [objects EXCEPT ![id] = after_calls(@)]
    /\ shared_call' = [op |-> "expect", session |-> active, object |-> id]
    /\ UNCHANGED <<parked, active>>

\* The caller turns to the other Specification object: each object keeps its
\* state in its own instance attributes.
switch ==
    /\ parked' = SessionObject
    /\ active' = 3 - active
    /\ stream' = parked.stream /\ pos' = parked.pos
    /\ current_byte' = parked.current_byte /\ bit_offset' = parked.bit_offset
    /\ byte_offset' = parked.byte_offset /\ history' = parked.history
    /\ track_history' = parked.track_history /\ middleware' = parked.middleware
    /\ cur_index' = parked.cur_index /\ last' = parked.last
    /\ delivered' = parked.delivered /\ delivered_idx' = parked.delivered_idx
    /\ clean' = parked.clean /\ calls' = parked.calls /\ eof_read' = parked.eof_read
    /\ UNCHANGED <<objects, shared_call, shared_calls, conv_vars, type_vars>>

SharedNext ==
    \/ \E id \in 1..Len(SharedObjects), label \in Labels : shared_expect(id, FALSE, label)
    \/ switch

SpecShared == SharedInit /\ [][SharedNext]_vars

\* ------------------------------------------------------------ SpecConv
SessionIdle == InitSession({}, {TRUE}, {FALSE})

ConvInit ==
    /\ conv_bits \in BitSeqs(MaxBits)
    /\ conv_big_endian \in BOOLEAN
    /\ conv_result = [done |-> FALSE]
    /\ SessionIdle /\ TypeIdle /\ SharedIdle

Convert ==
    /\ ~conv_result.done
    /\ conv_result' = [done |-> TRUE,
                       bytes |-> bits_to_bytes(conv_bits, conv_big_endian),
                       int |-> bits_to_int(conv_bits, conv_big_endian)]
    /\ UNCHANGED <<conv_bits, conv_big_endian>>
    /\ UNCHANGED <<session_vars, type_vars, shared_vars>>

ConvNext == Convert

SpecConv == ConvInit /\ [][ConvNext]_vars

\* ------------------------------------------------------------ SpecType
\* A descriptor is constructed, then asked its bit length and applied to bits.
TypeInit ==
    /\ ty_call \in TypeCalls
    /\ ty_bits \in UNION {[1..n -> {0, 1}] : n \in 0..MaxTypeBits}
    /\ ty_obj = [done |-> FALSE]
    /\ ty_out = [done |-> FALSE]
    /\ SessionIdle /\ ConvIdle /\ SharedIdle

\* The constructor call described by ty_call.
construct(call) ==
    CASE call.class = "Bool" -> [raised |-> "", obj |-> Bool(call.single_bit)]
      [] call.class = "Array" -> [raised |-> "", obj |-> Array(call.spec_type, call.length)]
      [] call.class = "Packed" -> Packed(call.spec_types, call.names)
      [] call.class = "from_dict" -> from_dict(call.d)

Construct ==
    /\ ~ty_obj.done
    /\ \E r \in {construct(ty_call)} :
          ty_obj' = [done |-> TRUE, raised |-> r.raised, obj |-> r.obj]
    /\ UNCHANGED <<ty_call, ty_bits, ty_out, session_vars, conv_vars, shared_vars>>

Apply ==
    /\ ty_obj.done /\ ty_obj.raised = "" /\ ~ty_out.done
    /\ ty_out' = [done |-> TRUE,
                  bit_length |-> get_bit_length(ty_obj.obj),
                  slices |-> CASE ty_obj.obj.type = "Array" ->
                                     array_slices(ty_obj.obj, ty_bits)
                               [] ty_obj.obj.type = "Packed" ->
                                     packed_slices(ty_obj.obj, ty_bits)
                               [] OTHER -> <<>>,
                  result |-> parse(ty_obj.obj, ty_bits)]
    /\ UNCHANGED <<ty_call, ty_bits, ty_obj, session_vars, conv_vars, shared_vars>>

TypeNext == Construct \/ Apply

SpecType == TypeInit /\ [][TypeNext]_vars

\* ================================================================ claims
\* The stream's bit expansion, byte by byte, most significant bit first.
StreamBits ==
    [i \in 1..(8 * Len(stream)) |-> RefBits(stream[((i - 1) \div 8) + 1], 8)[((i - 1) % 8) + 1]]

\* The bits a cursor state has still to deliver: the rest of its current byte
\* and the bytes not yet read from the source.
UnreadBits(c) ==
    8 * (Len(stream) - c.pos)
    + (IF c.current_byte \in 0..255 THEN 8 - c.bit_offset ELSE 0)

IsPrefix(s, t) == Len(s) <= Len(t) /\ s = SubSeq(t, 1, Len(s))

LastIsExpect == last.op = "expect"

\* C1: for every bit sequence of length 0..64 and both endiannesses, bits_to_int
\* returns the unsigned integer whose L-bit MSB-first representation is bits
\* (big_endian) or bits reversed (little-endian), so re-encoding the result as
\* L bits gives back the input.
C1_RoundTrip ==
    conv_result.done =>
        LET L == Len(conv_bits)
            expected == IF conv_big_endian THEN conv_bits ELSE Reverse(conv_bits)
        IN  /\ conv_result.int.raised = ""
            /\ conv_result.int.val = RefValue(expected)
            /\ RefBits(conv_result.int.val, L) = expected

\* C2: for every bit sequence, of any length >= 0 and both endiannesses,
\* bits_to_bytes returns without raising exactly ceil(L/8) bytes, each in
\* 0..255, and bits_to_int returns without raising the big-endian integer of
\* those bytes.
C2_NoRaise ==
    conv_result.done =>
        /\ conv_result.bytes.raised = ""
        /\ Len(conv_result.bytes.val) = (Len(conv_bits) + 7) \div 8
        /\ \A i \in 1..Len(conv_result.bytes.val) : conv_result.bytes.val[i] \in 0..255
        /\ conv_result.int.raised = ""
        /\ conv_result.int.val = from_bytes(conv_result.bytes.val)

\* C3: Int(bytes=b, bits=e).get_bit_length() is e + 8*b, and an expect(Int)
\* that returns, in a session whose calls so far all returned, consumed exactly
\* the next 8*b + e stream bits and returned their unsigned value read most
\* significant bit first (big_endian) or in reversed order (little-endian).
C3_IntParse ==
    /\ \A b \in 0..2, e \in 0..8, be \in BOOLEAN :
          get_bit_length(SpecInt(b, e, be)) = e + 8 * b
    /\ (clean /\ LastIsExpect /\ last.spec_type.type = "Int"
        /\ get_bit_length(last.spec_type) \in 1..64) =>
          LET n == get_bit_length(last.spec_type)
              from == Len(delivered) - n
          IN  /\ from >= 0
              /\ Len(delivered) <= Len(StreamBits)
              /\ last.bits = SubSeq(StreamBits, from + 1, from + n)
              /\ last.value = RefValue(IF last.spec_type.big_endian THEN last.bits
                                        ELSE Reverse(last.bits))

\* C4: when every call so far was an expect that returned a value, the
\* concatenation of the bit sequences handed to parse is a prefix of the
\* stream's bit expansion (most significant bit of each byte first), whatever
\* the descriptors' endianness.
C4_NaturalOrder == clean => IsPrefix(delivered, StreamBits)

\* C4 witness: a little-endian 4-bit read followed by a 9-bit read that starts
\* mid-byte and crosses the byte boundary, both returning.
C4_Witness ==
    /\ clean /\ calls = 2 /\ Len(delivered) = 13
    /\ LastIsExpect /\ last.pre.bit_offset = 4
    /\ history.tag = "list" /\ Len(history.items) = 2
    /\ history.items[1][1] = SpecInt(0, 4, FALSE)

\* C5: when fewer than bit_length unread bits remain, expect(descriptor,
\* none_at_eof=True) returns None, appends nothing to the history and does not
\* reach the middleware.
C5_PermissiveNone ==
    (LastIsExpect /\ last.none_at_eof /\ get_bit_length(last.spec_type) >= 0
     /\ UnreadBits(last.pre) < get_bit_length(last.spec_type)) =>
        /\ last.outcome = "None"
        /\ history = last.pre.history

\* C6: when fewer than bit_length unread bits remain, a strict expect raises
\* SpecEofError and the byte count its message names is the number of bytes
\* the session has consumed from the stream.
C6_StrictEof ==
    (LastIsExpect /\ ~last.none_at_eof /\ get_bit_length(last.spec_type) >= 0
     /\ UnreadBits(last.pre) < get_bit_length(last.spec_type)) =>
        /\ last.outcome = "SpecEofError"
        /\ last.named = pos

\* C7: assert_eof returns normally when every byte of the stream has been
\* consumed; when a byte is still unread in the source it raises SpecEofError
\* and the message names the number of bytes consumed so far.
C7_AssertEof ==
    last.op = "assert_eof" =>
        /\ last.pre.pos = Len(stream) => last.outcome = "returned"
        /\ last.pre.pos < Len(stream) =>
              /\ last.outcome = "SpecEofError"
              /\ last.named = last.pre.pos

\* C8: an expect whose descriptor reports a negative bit length raises
\* SpecTypeError and leaves the cursor (current byte, bit offset), the
\* stream's read position and the history as they were, so the next expect
\* starts from the state the rejected call started from.
C8_NegativeRejected ==
    (LastIsExpect /\ get_bit_length(last.spec_type) < 0) =>
        /\ last.outcome = "SpecTypeError"
        /\ Snapshot = last.pre
        /\ \A n \in 0..9, e \in BOOLEAN :
              take_bits(Cursor, n, e)
                  = take_bits([current_byte |-> last.pre.current_byte,
                               bit_offset |-> last.pre.bit_offset,
                               pos |-> last.pre.pos,
                               cur_index |-> last.pre.cur_index], n, e)

\* C8 witness: the rejected call was made mid-byte, after a read.
C8_Witness ==
    /\ LastIsExpect /\ last.spec_type = InvalidSpecType
    /\ last.outcome = "SpecTypeError"
    /\ last.pre.bit_offset = 4 /\ last.pre.pos = 1 /\ Len(delivered) = 4

\* C9: Array(d, k).get_bit_length() is d.get_bit_length() * k, and an expect
\* of bit length 0 returns the empty result and consumes nothing in every
\* session state, strict or permissive: a following expect reads what it would
\* have read without the call.
C9_ZeroLength ==
    /\ \A d \in {Bool(TRUE), Bool(FALSE), Bits(3), SpecInt(1, 1, TRUE)}, k \in 0..3 :
          get_bit_length(Array(d, k)) = get_bit_length(d) * k
    /\ (LastIsExpect /\ ~middleware /\ get_bit_length(last.spec_type) = 0) =>
          /\ last.outcome = "value"
          /\ last.value = <<>>
          /\ \A n \in 1..9, e \in BOOLEAN :
                LET after == take_bits(Cursor, n, e)
                    before == take_bits([current_byte |-> last.pre.current_byte,
                                         bit_offset |-> last.pre.bit_offset,
                                         pos |-> last.pre.pos,
                                         cur_index |-> last.pre.cur_index], n, e)
                IN  after.out = before.out /\ after.bits = before.bits

\* C10: the cursor never rewinds: whatever the outcomes of the calls, the
\* stream bits handed to parse come at strictly increasing stream positions,
\* so the position never decreases and no bit is delivered twice.
C10_NeverRewinds ==
    \A i, j \in 1..Len(delivered_idx) : i < j => delivered_idx[i] < delivered_idx[j]

\* C11: in a session driven only by expect(..., none_at_eof=True) calls of
\* positive bit length, no call raises because the stream ran out (SpecEofError,
\* or the TypeError of shifting the None that the exhausted stream left in
\* __current_byte), and the call that follows one that returned None returns
\* None too.
C11_PermissiveNeverRaises ==
    [][/\ last'.op = "expect" => last'.outcome \notin {"SpecEofError", "TypeError"}
       /\ (last.op = "expect" /\ last.outcome = "None") => last'.outcome = "None"]_vars

\* C12: with history tracking enabled, a call that returns a value appends its
\* (descriptor, value, label) triple at the end of the history and every other
\* call leaves the history as it was, so the history is at every point the list
\* of the triples of exactly the expect calls that returned a value, in order.
C12_HistoryIsReturnedCalls ==
    [][track_history =>
          IF last'.op = "expect" /\ last'.outcome = "value"
          THEN get_history'.items = Append(get_history.items,
                                       <<last'.spec_type, last'.value, last'.label>>)
          ELSE get_history' = get_history]_vars

\* C13: with an observer configured, an expect call whose parse produced a
\* value invokes the observer exactly once and, the observer returning
\* normally, returns the parsed value.
C13_ObserverInvoked ==
    (/\ middleware /\ LastIsExpect /\ last.taken
     /\ parse(last.spec_type, last.bits).raised = "") =>
        /\ last.invoked = 1
        /\ last.outcome = "value"
        /\ last.value = parse(last.spec_type, last.bits).val

\* The number of stream bits before the cursor c.
AbsPos(c) == IF c.current_byte = -1 THEN 0 ELSE 8 * (c.cur_index - 1) + c.bit_offset

\* C14: when descriptor.parse raises inside expect, the exception reaches the
\* caller and the bits given to parse stay consumed: the cursor has advanced by
\* exactly bit_length bits, the history has no new entry, the observer was not
\* called, and a following expect reads the bits right after the failed field.
C14_ParseFailureKeepsBits ==
    (/\ LastIsExpect /\ last.taken
     /\ parse(last.spec_type, last.bits).raised # "") =>
        LET bit_length == get_bit_length(last.spec_type)
            from == AbsPos(last.pre)
        IN  /\ last.outcome = parse(last.spec_type, last.bits).raised
            /\ last.bits = SubSeq(StreamBits, from + 1, from + bit_length)
            /\ AbsPos(Cursor) = from + bit_length
            /\ get_history = last.pre.history
            /\ last.invoked = 0
            /\ \A n \in 1..(Len(StreamBits) - from - bit_length) :
                  LET t == take_bits(Cursor, n, FALSE)
                  IN  /\ t.out = "bits"
                      /\ t.bits = SubSeq(StreamBits, from + bit_length + 1,
                                         from + bit_length + n)

\* C14 witness: a String read that starts mid-byte, after a recorded field,
\* fails to decode and leaves four bits of the stream to read.
C14_Witness ==
    /\ LastIsExpect /\ last.spec_type.type = "String"
    /\ last.outcome = "UnicodeDecodeError"
    /\ last.pre.bit_offset = 4 /\ Len(history.items) = 1
    /\ Len(StreamBits) - AbsPos(Cursor) = 4

\* The members and the names of the Packed constructor call under SpecType.
CallIsPacked == ty_call.class \in {"Packed", "from_dict"}

CallMembers ==
    IF ty_call.class = "Packed" THEN ty_call.spec_types
    ELSE [i \in 1..Len(ty_call.d) |-> ty_call.d[i][2]]

CallNames ==
    IF ty_call.class = "Packed" THEN ty_call.names
    ELSE [tag |-> "list", items |-> [i \in 1..Len(ty_call.d) |-> ty_call.d[i][1]]]

\* The sum of the bit lengths of the first k members.
RECURSIVE MemberOffset(_, _)
MemberOffset(members, k) ==
    IF k = 0 THEN 0 ELSE MemberOffset(members, k - 1) + get_bit_length(members[k])

\* The slice of the bits that belongs to member k.
MemberBits(k) ==
    SubSeq(ty_bits, MemberOffset(CallMembers, k - 1) + 1, MemberOffset(CallMembers, k))

\* The bit length is the sum of the members' bit lengths and member k is handed
\* the consecutive slice that starts at the sum of the lengths before it.
PackedSlicing ==
    /\ ty_out.bit_length = MemberOffset(CallMembers, Len(CallMembers))
    /\ Len(ty_out.slices) = Len(CallMembers)
    /\ \A k \in 1..Len(CallMembers) :
          /\ ty_out.slices[k].spec_type = CallMembers[k]
          /\ ty_out.slices[k].bits = MemberBits(k)
    /\ ty_out.result.raised = ""

\* The result holds one entry per member, in member order: the value, or the
\* (name, value) pair when names were given.
PackedResult ==
    /\ Len(ty_out.result.val) = Len(CallMembers)
    /\ \A k \in 1..Len(CallMembers) :
          ty_out.result.val[k] =
             IF CallNames.tag = "None" THEN parse(CallMembers[k], MemberBits(k)).val
             ELSE <<CallNames.items[k], parse(CallMembers[k], MemberBits(k)).val>>

PackedApplied ==
    /\ CallIsPacked /\ ty_out.done
    /\ Len(ty_bits) = MemberOffset(CallMembers, Len(CallMembers))

\* C15 as stated: the bit length of a Packed is the sum of its members' bit
\* lengths, parse hands member k the consecutive slice that starts at the sum
\* of the lengths before it, and the result lists the members' values in
\* member order or, whenever names are given, holds one (name k, value k)
\* entry per member in member order.
C15_PackedAsStated ==
    PackedApplied => (PackedSlicing /\ PackedResult)

\* C15 amended: as C15, the named result being promised only when the names
\* given are pairwise distinct.
C15_PackedDistinctNames ==
    PackedApplied =>
        /\ PackedSlicing
        /\ (\/ CallNames.tag = "None"
            \/ \A i, j \in 1..Len(CallMembers) :
                  i # j => CallNames.items[i] # CallNames.items[j]) => PackedResult

\* C15 witness: the named packed field of the tests applied to 0b11001100.
C15_Witness ==
    /\ ty_call.class = "from_dict" /\ ty_out.done
    /\ ty_bits = <<1, 1, 0, 0, 1, 1, 0, 0>>
    /\ ty_out.result.val = << <<"a", 3>>, <<"b", 3>>, <<"c", <<FALSE, FALSE>> >> >>

\* C16: Array(d, k).parse(bits), k >= 0, applied to k * n bits with
\* n = d.get_bit_length(), returns a list of exactly k values, the i-th being
\* d.parse of the i-th chunk of n consecutive bits; 0b11001100 read with
\* Array(Bool(single_bit=True), 8) gives [T, T, F, F, T, T, F, F].
C16_ArrayChunks ==
    (/\ ty_call.class = "Array" /\ ty_out.done /\ ty_call.length >= 0
     /\ Len(ty_bits) = ty_call.length * get_bit_length(ty_call.spec_type)) =>
        LET n == get_bit_length(ty_call.spec_type)
        IN  /\ ty_out.result.raised = ""
            /\ Len(ty_out.result.val) = ty_call.length
            /\ \A i \in 1..ty_call.length :
                  ty_out.result.val[i] =
                     parse(ty_call.spec_type, SubSeq(ty_bits, (i - 1) * n + 1, i * n)).val
            /\ (ty_call.spec_type = Bool(TRUE) /\ ty_bits = <<1, 1, 0, 0, 1, 1, 0, 0>>) =>
                  ty_out.result.val = <<TRUE, TRUE, FALSE, FALSE, TRUE, TRUE, FALSE, FALSE>>

\* C16 witness: the array of eight flags of the tests, applied to 0b11001100.
C16_Witness ==
    /\ ty_call.class = "Array" /\ ty_call.spec_type = Bool(TRUE) /\ ty_call.length = 8
    /\ ty_bits = <<1, 1, 0, 0, 1, 1, 0, 0>>
    /\ ty_out.done /\ Len(ty_out.result.val) = 8

\* C17: every parse call made by expect on its descriptor, and every nested
\* parse call made by Array.parse and Packed.parse on their elements and
\* members, receives exactly get_bit_length() bits of that descriptor, each of
\* them 0 or 1.
C17_ParseGetsExactBits ==
    (LastIsExpect /\ last.taken) =>
        \A c \in parse_calls(last.spec_type, last.bits) :
            /\ Len(c.bits) = get_bit_length(c.spec_type)
            /\ \A i \in 1..Len(c.bits) : c.bits[i] \in {0, 1}

\* C17 witness: a packed field with a nested array is parsed from bits that
\* straddle two bytes.
C17_Witness ==
    /\ LastIsExpect /\ last.spec_type.type = "Packed" /\ last.taken
    /\ last.pre.bit_offset = 4
    /\ Cardinality(parse_calls(last.spec_type, last.bits)) > Len(PackedMembers)

\* C18: Bool(single_bit=True) has bit length 1 and parses to True iff the bit
\* is 1; Bool() has bit length 8 and parses to True iff the byte is not 0.
C18_BoolParse ==
    (ty_call.class = "Bool" /\ ty_out.done /\ Len(ty_bits) = ty_out.bit_length) =>
        /\ ty_out.bit_length = IF ty_call.single_bit THEN 1 ELSE 8
        /\ ty_out.result.raised = ""
        /\ ty_out.result.val = (RefValue(ty_bits) # 0)

\* C18 witness: Bool() applied to the byte 128, whose low bit is clear.
C18_Witness ==
    /\ ty_call.class = "Bool" /\ ~ty_call.single_bit /\ ty_out.done
    /\ ty_bits = <<1, 0, 0, 0, 0, 0, 0, 0>> /\ ty_out.result.val = TRUE

\* C19: in a session created with track_history=False, get_history() is the
\* empty list at every point.
C19_UntrackedHistoryEmpty ==
    ~track_history => get_history = [tag |-> "list", items |-> <<>>]

\* C20: Packed(spec_types, names=names) with names given and of another length
\* than spec_types raises SpecTypeError at construction, no object is made and
\* no session has read a bit; with names omitted or of equal length the
\* construction succeeds.
C20_NamesLengthChecked ==
    (CallIsPacked /\ ty_obj.done) =>
        IF CallNames.tag # "None" /\ Len(CallNames.items) # Len(CallMembers)
        THEN /\ ty_obj.raised = "SpecTypeError"
             /\ ty_obj.obj.type = "none"
             /\ pos = 0 /\ current_byte = -1 /\ calls = 0
        ELSE /\ ty_obj.raised = ""
             /\ ty_obj.obj.type = "Packed"

\* C20 witness: two names for three members, rejected.
C20_Witness ==
    /\ CallIsPacked /\ ty_obj.done /\ ty_obj.raised = "SpecTypeError"
    /\ Len(CallMembers) = 3 /\ Len(CallNames.items) = 2

\* C22: assert_eof() reads one byte from the byte source. When it raises, one
\* byte has left the stream and no later expect is ever handed a bit of it,
\* while the current byte and the sub-byte offset are as before; when it
\* returns normally, nothing was consumed and the session state is unchanged.
C22_AssertEofReadsOneByte ==
    /\ \A i \in 1..Len(delivered_idx) : ((delivered_idx[i] - 1) \div 8) + 1 \notin eof_read
    /\ last.op = "assert_eof" =>
          /\ current_byte = last.pre.current_byte
          /\ bit_offset = last.pre.bit_offset
          /\ cur_index = last.pre.cur_index
          /\ byte_offset = last.pre.byte_offset
          /\ get_history = last.pre.history
          /\ IF last.outcome = "SpecEofError"
             THEN /\ last.pre.pos < Len(stream)
                  /\ pos = last.pre.pos + 1
                  /\ pos \in eof_read
             ELSE /\ last.outcome = "returned"
                  /\ pos = last.pre.pos

\* C22 witness: assert_eof raised mid-byte on a two-byte stream, and a later
\* expect received the rest of the current byte.
C22_Witness ==
    /\ LastIsExpect /\ last.outcome = "value" /\ eof_read = {2}
    /\ Len(delivered_idx) = 8 /\ last.pre.bit_offset = 4

\* The cursor holds a byte with bits not yet consumed.
BitsLeftInByte(c) == c.current_byte \notin {-1, None} /\ c.bit_offset < 8

\* C23 as stated: assert_eof() raises SpecEofError whenever a bit is unread,
\* be it in an unread byte of the source or among the bits of the current byte
\* that are not consumed yet, so it returns normally only when every bit of
\* the stream was delivered.
C23_AssertEofSeesBits ==
    (/\ last.op = "assert_eof"
     /\ (last.pre.pos < Len(stream) \/ BitsLeftInByte(last.pre))) =>
        last.outcome = "SpecEofError"

\* C23 amended: assert_eof() raises SpecEofError exactly when a byte of the
\* source is unread; bits of the current byte that are not consumed yet do not
\* make it raise.
C23_AssertEofSeesBytes ==
    last.op = "assert_eof" =>
        (last.outcome = "SpecEofError" <=> last.pre.pos < Len(stream))

\* C23 witness: assert_eof returned normally with four bits of the last byte
\* still to read.
C23_Witness ==
    /\ last.op = "assert_eof" /\ last.outcome = "returned"
    /\ Len(stream) > 0 /\ last.pre.bit_offset = 4 /\ Len(delivered) = 4

\* C24: a permissive expect that returns None because fewer than bit_length
\* bits remain leaves the cursor where it was: every following expect whose
\* bit length fits in the bits that were unread before the call returns them.
C24_NoneLeavesCursor ==
    (LastIsExpect /\ last.outcome = "None") =>
        LET from == AbsPos(last.pre)
        IN  \A n \in 1..(Len(StreamBits) - from), e \in BOOLEAN :
               LET t == take_bits(Cursor, n, e)
               IN  /\ t.out = "bits"
                   /\ t.bits = SubSeq(StreamBits, from + 1, from + n)

\* C25: the cursor never prefetches: after any sequence of expect calls that
\* all returned a value, the number of bytes read from the byte source is
\* ceil(T / 8), T being the number of bits delivered so far.
C25_LazyLoading ==
    clean => pos = (Len(delivered) + 7) \div 8

====
